---- MODULE Spec2Model ----
(***************************************************************************)
(* Ledger store of the personal finance tracker backend (server.js):       *)
(* accounts, transactions and keyword rules in the relational store, and   *)
(* the HTTP handlers that create accounts and create, update and delete    *)
(* transactions while maintaining accounts.current_balance.                *)
(*                                                                         *)
(* Money.  NUMERIC columns are exact decimals.  Amounts that arrive in a   *)
(* request body are decimals with one fractional digit and are modelled    *)
(* as an integer number of tenths.  A balance is a pair [t, e] that stands *)
(* for the exact decimal t * 10^-1 + e * 10^-17: the e part is only ever   *)
(* produced by the double-precision subtraction the update handler does in *)
(* JavaScript (JsSub).                                                     *)
(*                                                                         *)
(* The module also holds the user_settings table with its GET and PUT      *)
(* handlers, and the browser's store (store/main.tsx): its persisted       *)
(* slices and its socket.                                                  *)
(***************************************************************************)
EXTENDS Integers, Sequences, FiniteSets, TLC

VARIABLES
    accounts,       \* table accounts: id -> row
    transactions,   \* table transactions: id -> row
    keyword_rules,  \* table keyword_rules, in the order its rows were inserted
    nextAcct,       \* number of account ids handed out by uuidv4()
    nextTx,         \* number of transaction ids handed out by uuidv4()
    nUpdates,       \* number of transaction updates that reached the store
    last,           \* the response to the last completed request
    pc,             \* per in-flight request: the statement it is at
    req,            \* per in-flight request: the handler's local variables
    user_settings,  \* table user_settings: id -> row
    store,          \* client: the state of useAppStore
    storage,        \* client: the item 'app_store' of the browser's storage
    connections,    \* client: the sockets that are open, with their listeners
    nSockets,       \* client: number of sockets io() has created
    nLoads          \* client: number of times the page has been loaded

vars == <<accounts, transactions, keyword_rules, nextAcct, nextTx, nUpdates, last,
          pc, req, user_settings, store, storage, connections, nSockets,
          nLoads>>

dbvars == <<accounts, transactions, keyword_rules>>

ledgervars == <<accounts, transactions, keyword_rules, nextAcct, nextTx, nUpdates>>

clientvars == <<store, storage, connections, nSockets, nLoads>>

-----------------------------------------------------------------------------
(* Bounds of the model *)

MaxAcct == 2

MaxTx == 2

MaxUpdates == 2

MaxSupplied == 2

MaxRules == 4

Users == {"user1", "user2"}

Procs == {"p1", "p2"}

Amounts == {-2, 1}

InitialBalances == {10}

AcctIds == 1..MaxAcct

TxIds == 1..MaxTx

-----------------------------------------------------------------------------
(* JavaScript and SQL values *)

\* A request body is a record that carries only the fields the caller
\* supplied: reading a field it lacks gives JavaScript's undefined.
Has(body, f) == f \in DOMAIN body

NULL == "NULL"

\* The description '' (descriptions and keywords are sequences of characters)
EmptyStr == << >>

\* !body.f in JavaScript, for an id, a date or a tag
Falsy(body, f) == ~Has(body, f) \/ body[f] = ""

\* A query parameter taken from body.f: undefined is sent as NULL
Param(body, f) == IF Has(body, f) THEN body[f] ELSE NULL

\* !body.keyword
FalsyKeyword(body) == ~Has(body, "keyword") \/ body.keyword = EmptyStr

\* !body.description
FalsyText(body) == ~Has(body, "description") \/ body.description = EmptyStr

CategoryIds == {"cat1", "cat2", "cat3"}

\* The description "UBER"
DescUber == <<"U", "B", "E", "R">>

SeedKeywordRules ==
    << [keyword |-> <<"S", "t", "a", "r">>, category_id |-> "cat1"],
       [keyword |-> <<"U", "b", "e", "r">>, category_id |-> "cat2"],
       [keyword |-> <<"E", "l", "e", "c">>, category_id |-> "cat3"] >>

toLowerCase(s) ==
    LET low == [c \in {"S", "U", "E", "B", "R", "T", "L", "C"} |->
                  CASE c = "S" -> "s" [] c = "U" -> "u" [] c = "E" -> "e"
                    [] c = "B" -> "b" [] c = "R" -> "r" [] c = "T" -> "t"
                    [] c = "L" -> "l" [] c = "C" -> "c"]
    IN  [i \in 1..Len(s) |-> IF s[i] \in DOMAIN low THEN low[s[i]] ELSE s[i]]

\* String.prototype.includes
includes(s, k) ==
    \E i \in 1..(Len(s) - Len(k) + 1) : SubSeq(s, i, i + Len(k) - 1) = k

\* An exact decimal: t tenths plus e units of 10^-17
Num(t) == [t |-> t, e |-> 0]

NumAdd(x, y) == [t |-> x.t + y.t, e |-> x.e + y.e]

NumNeg(x) == [t |-> -x.t, e |-> -x.e]

\* The rounding error, in units of 10^-17, of Number(a) - Number(b) printed
\* back as the shortest decimal that round-trips, for a and b in tenths
\* (IEEE-754 binary64: 0.3 - 0.1 = 0.19999999999999998,
\*  0.1 - (-0.2) = 0.30000000000000004).
JsSubErr(a, b) ==
    CASE <<a, b>> \in {<<-3, -2>>, <<-3, -1>>, <<1, 3>>, <<2, 3>>} -> 2
      [] <<a, b>> \in {<<-2, -3>>, <<-1, -3>>, <<3, 1>>, <<3, 2>>} -> -2
      [] <<a, b>> \in {<<1, -2>>, <<2, -1>>} -> 4
      [] <<a, b>> \in {<<-2, 1>>, <<-1, 2>>} -> -4
      [] OTHER -> 0

\* updatedTransaction.amount - oldTransaction.amount: both operands are the
\* strings node-postgres returns for NUMERIC, coerced to doubles
JsSub(a, b) == [t |-> a - b, e |-> JsSubErr(a, b)]

-----------------------------------------------------------------------------
(* Storage statements *)

\* Mutant: the statement adds to the wrong column's value
SqlAddBalance_WrongColumn(accts, delta, id, user) ==
    [a \in DOMAIN accts |->
        IF a = id /\ accts[a].user_id = user
        THEN [accts[a] EXCEPT !.current_balance = NumAdd(accts[a].initial_balance, delta)]
        ELSE accts[a]]

\* Mutant: the statement's WHERE clause lacks id = $3
SqlAddBalance_NoIdFilter(accts, delta, id, user) ==
    [a \in DOMAIN accts |->
        IF accts[a].user_id = user
        THEN [accts[a] EXCEPT !.current_balance = NumAdd(@, delta)]
        ELSE accts[a]]

\* Mutant: the statement's WHERE clause lacks user_id = $4
SqlAddBalance_NoUserFilter(accts, delta, id, user) ==
    [a \in DOMAIN accts |->
        IF a = id
        THEN [accts[a] EXCEPT !.current_balance = NumAdd(@, delta)]
        ELSE accts[a]]

\* UPDATE accounts SET current_balance = current_balance + $1
\*  WHERE id = $3 AND user_id = $4
SqlAddBalance(accts, delta, id, user) ==
    [a \in DOMAIN accts |->
        IF a = id /\ accts[a].user_id = user
        THEN [accts[a] EXCEPT !.current_balance = NumAdd(@, delta)]
        ELSE accts[a]]

\* Constraints of table transactions that an INSERT or UPDATE must satisfy:
\* the foreign keys to accounts and categories, and NOT NULL
TransactionRowOk(row, accts) ==
    /\ row.account_id \in DOMAIN accts
    /\ row.date # NULL
    /\ row.transaction_type # NULL
    /\ row.category_id \in CategoryIds \cup {NULL}

\* Mutant: the SELECT lacks AND user_id = $2
SqlSelectTransaction_NoUserFilter(txs, id, user) ==
    IF id \in DOMAIN txs THEN {txs[id]} ELSE {}

\* SELECT * FROM transactions WHERE id = $1 AND user_id = $2
SqlSelectTransaction(txs, id, user) ==
    IF id \in DOMAIN txs /\ txs[id].user_id = user THEN {txs[id]} ELSE {}

\* DELETE FROM transactions WHERE id = $1 AND user_id = $2
SqlDeleteTransaction(txs, id, user) ==
    [t \in {x \in DOMAIN txs : ~(x = id /\ txs[x].user_id = user)} |-> txs[t]]

\* s without its i-th element
RemoveAt(s, i) == SubSeq(s, 1, i - 1) \o SubSeq(s, i + 1, Len(s))

\* SELECT category_id, keyword FROM keyword_rules: the statement has no
\* ORDER BY, so the store may return the rows of the table in any order
RECURSIVE SqlSelectKeywordRules(_)
SqlSelectKeywordRules(rules) ==
    IF rules = << >> THEN {<< >>}
    ELSE UNION {{<<rules[i]>> \o rest : rest \in SqlSelectKeywordRules(RemoveAt(rules, i))} :
                   i \in 1..Len(rules)}

\* The order of the TEXT values used as dates under the comparison
\* operators of the store
TextOrd(d) == CASE d = "2023-03-15" -> 1 [] d = "2023-04-01" -> 2

\* Mutant: the end date is compared with <
SqlListTransactions_ExclusiveEnd(txs, user, query) ==
    {[id |-> i] @@ txs[i] : i \in
        {t \in DOMAIN txs :
            /\ txs[t].user_id = user
            /\ Has(query, "account_id") => txs[t].account_id = query.account_id
            /\ ~Falsy(query, "category_id") => txs[t].category_id = query.category_id
            /\ ~Falsy(query, "start_date") =>
                  TextOrd(txs[t].date) >= TextOrd(query.start_date)
            /\ ~Falsy(query, "end_date") =>
                  TextOrd(txs[t].date) < TextOrd(query.end_date)
            /\ ~Falsy(query, "transaction_type") =>
                  txs[t].transaction_type = query.transaction_type}}

\* SELECT * FROM transactions WHERE user_id = $1, with one AND clause for
\* each query parameter that is truthy.  The result is the collection of
\* rows; the statement has no ORDER BY and their order is not modelled.
SqlListTransactions(txs, user, query) ==
    {[id |-> i] @@ txs[i] : i \in
        {t \in DOMAIN txs :
            /\ txs[t].user_id = user
            /\ Has(query, "account_id") => txs[t].account_id = query.account_id
            /\ ~Falsy(query, "category_id") => txs[t].category_id = query.category_id
            /\ ~Falsy(query, "start_date") =>
                  TextOrd(txs[t].date) >= TextOrd(query.start_date)
            /\ ~Falsy(query, "end_date") =>
                  TextOrd(txs[t].date) <= TextOrd(query.end_date)
            /\ ~Falsy(query, "transaction_type") =>
                  txs[t].transaction_type = query.transaction_type}}

\* COALESCE($n, f): an undefined parameter is sent as NULL
COALESCE(body, f, old) == IF Has(body, f) THEN body[f] ELSE old

\* Mutant: the UPDATE assigns $7 to recurrence without COALESCE
UpdatedRow_NoCoalesce(old, body) ==
    [old EXCEPT !.account_id = COALESCE(body, "account_id", @),
                !.date = COALESCE(body, "date", @),
                !.amount = COALESCE(body, "amount", @),
                !.transaction_type = COALESCE(body, "transaction_type", @),
                !.description = COALESCE(body, "description", @),
                !.category_id = COALESCE(body, "category_id", @),
                !.recurrence = Param(body, "recurrence")]

\* The row UPDATE transactions SET f = COALESCE($n, f) ... writes
UpdatedRow(old, body) ==
    [old EXCEPT !.account_id = COALESCE(body, "account_id", @),
                !.date = COALESCE(body, "date", @),
                !.amount = COALESCE(body, "amount", @),
                !.transaction_type = COALESCE(body, "transaction_type", @),
                !.description = COALESCE(body, "description", @),
                !.category_id = COALESCE(body, "category_id", @),
                !.recurrence = COALESCE(body, "recurrence", @)]

-----------------------------------------------------------------------------
(* Handler logic *)

\* POST /api/accounts: the required-field test
AccountMissingRequired(body) ==
    \/ Falsy(body, "account_name")
    \/ Falsy(body, "account_type")
    \/ ~Has(body, "initial_balance")
    \/ Falsy(body, "currency")

\* Mutant: the required-field test forgets the date
MissingRequired_NoDate(body) ==
    \/ ~Has(body, "account_id")
    \/ ~Has(body, "amount")
    \/ Falsy(body, "transaction_type")

\* POST /api/transactions: the required-field test
MissingRequired(body) ==
    \/ ~Has(body, "account_id")
    \/ Falsy(body, "date")
    \/ ~Has(body, "amount")
    \/ Falsy(body, "transaction_type")

\* Mutant: the rules are consulted whenever there is a description
ReadsKeywordRules_Always(body) == ~FalsyText(body)

\* POST /api/transactions: whether the keyword rules are read
ReadsKeywordRules(body) ==
    Falsy(body, "category_id") /\ ~FalsyText(body)

\* Mutant: the loop has no break, so the last matching row wins
FirstMatch_LastWins(description, rows, i) ==
    LET hits == {j \in i..Len(rows) :
                    includes(toLowerCase(description), toLowerCase(rows[j].keyword))}
    IN  IF hits = {} THEN NULL
        ELSE rows[CHOOSE j \in hits : \A k \in hits : k <= j].category_id

\* The for loop over kwResult.rows: first match wins
RECURSIVE FirstMatch(_, _, _)
FirstMatch(description, rows, i) ==
    IF i > Len(rows) THEN NULL
    ELSE IF includes(toLowerCase(description), toLowerCase(rows[i].keyword))
         THEN rows[i].category_id
         ELSE FirstMatch(description, rows, i + 1)

\* category_id || null after the auto-categorization block
Categorize(body, rows) ==
    IF ReadsKeywordRules(body)
    THEN FirstMatch(body.description, rows, 1)
    ELSE IF Falsy(body, "category_id") THEN NULL ELSE body.category_id

\* Mutant: the INSERT gets req.body.recurrence as it came
NewTransactionRow_NoDefault(user, body, category_id) ==
    [user_id |-> user,
     account_id |-> body.account_id,
     date |-> Param(body, "date"),
     amount |-> body.amount,
     transaction_type |-> Param(body, "transaction_type"),
     description |-> IF FalsyText(body) THEN EmptyStr ELSE body.description,
     category_id |-> category_id,
     recurrence |-> Param(body, "recurrence")]

\* The values array of the INSERT in POST /api/transactions
NewTransactionRow(user, body, category_id) ==
    [user_id |-> user,
     account_id |-> body.account_id,
     date |-> Param(body, "date"),
     amount |-> body.amount,
     transaction_type |-> Param(body, "transaction_type"),
     description |-> IF FalsyText(body) THEN EmptyStr ELSE body.description,
     category_id |-> category_id,
     recurrence |-> IF Falsy(body, "recurrence") THEN "none" ELSE body.recurrence]

\* A row as a statement returns it: the primary key and the other columns
Row(id, row) == [id |-> id] @@ row

\* res.status(status).json(rows): the status and the rows of the JSON body,
\* with a note of whether the handler read table keyword_rules
Reply(op, status, kw, rows) ==
    [op |-> op, status |-> status, kw_read |-> kw, rows |-> rows]

\* A response whose body is a message or empty
Response(op, status, kw) == Reply(op, status, kw, {})

-----------------------------------------------------------------------------
(* Requests run to completion, one after another *)

\* POST /api/accounts
CreateAccount(user, body) ==
    /\ nextAcct < MaxAcct
    /\ IF AccountMissingRequired(body)
       THEN /\ last' = Response("create_account", "400", FALSE)
            /\ UNCHANGED <<accounts, nextAcct>>
       ELSE LET row == [user_id |-> user,
                        account_name |-> body.account_name,
                        account_type |-> body.account_type,
                        initial_balance |-> Num(body.initial_balance),
                        current_balance |-> Num(body.initial_balance),
                        currency |-> body.currency]
            IN  /\ accounts' = accounts @@ ((nextAcct + 1) :> row)
                /\ nextAcct' = nextAcct + 1
                /\ last' = Reply("create_account", "201", FALSE,
                                 {Row(nextAcct + 1, row)})
    /\ UNCHANGED <<transactions, keyword_rules, nextTx, nUpdates, pc, req>>
    /\ UNCHANGED <<user_settings, clientvars>>

\* The results the handler of POST /api/transactions may get from its SELECT
\* on keyword_rules, if it issues it
KeywordRuleReads(body) ==
    IF ~MissingRequired(body) /\ ReadsKeywordRules(body)
    THEN SqlSelectKeywordRules(keyword_rules)
    ELSE {<< >>}

\* POST /api/transactions, where kwRows is kwResult.rows
CreateTransactionWith(user, body, kwRows) ==
    /\ nextTx < MaxTx
    /\ IF MissingRequired(body)
       THEN /\ last' = Response("create", "400", FALSE)
            /\ UNCHANGED <<accounts, transactions, nextTx>>
       ELSE LET row == NewTransactionRow(user, body, Categorize(body, kwRows))
                kw == ReadsKeywordRules(body)
            IN  IF ~TransactionRowOk(row, accounts)
                THEN /\ last' = Response("create", "500", kw)
                     /\ UNCHANGED <<accounts, transactions, nextTx>>
                ELSE /\ transactions' = transactions @@ ((nextTx + 1) :> row)
                     /\ nextTx' = nextTx + 1
                     /\ accounts' = SqlAddBalance(accounts, Num(body.amount),
                                                  body.account_id, user)
                     /\ last' = Reply("create", "201", kw, {Row(nextTx + 1, row)})
    /\ UNCHANGED <<keyword_rules, nextAcct, nUpdates, pc, req>>
    /\ UNCHANGED <<user_settings, clientvars>>

\* POST /api/transactions
CreateTransaction(user, body) ==
    \E kwRows \in KeywordRuleReads(body) : CreateTransactionWith(user, body, kwRows)

\* if (account_id && account_id !== oldTransaction.account_id)
AccountChanged(body, old) ==
    Has(body, "account_id") /\ body.account_id # old.account_id

\* Mutant: an account change is reconciled like an amount change
ReconcileBalances_NoReverse(accts, user, body, old, upd) ==
    SqlAddBalance(accts, JsSub(upd.amount, old.amount), upd.account_id, user)

\* The balance statements of PUT /api/transactions/:transaction_id
ReconcileBalances(accts, user, body, old, upd) ==
    IF AccountChanged(body, old)
    THEN SqlAddBalance(
             SqlAddBalance(accts, NumNeg(Num(old.amount)), old.account_id, user),
             Num(upd.amount), body.account_id, user)
    ELSE SqlAddBalance(accts, JsSub(upd.amount, old.amount), old.account_id, user)

\* PUT /api/transactions/:transaction_id
UpdateTransaction(user, id, body) ==
    /\ nUpdates < MaxUpdates
    /\ LET oldRes == SqlSelectTransaction(transactions, id, user)
       IN  IF oldRes = {}
           THEN /\ last' = Response("update", "404", FALSE)
                /\ UNCHANGED <<accounts, transactions, nUpdates>>
           ELSE LET old == CHOOSE r \in oldRes : TRUE
                    upd == UpdatedRow(old, body)
                IN  IF ~TransactionRowOk(upd, accounts)
                    THEN /\ last' = Response("update", "500", FALSE)
                         /\ UNCHANGED <<accounts, transactions, nUpdates>>
                    ELSE /\ transactions' = [transactions EXCEPT ![id] = upd]
                         /\ nUpdates' = nUpdates + 1
                         /\ accounts' = ReconcileBalances(accounts, user, body, old, upd)
                         /\ last' = Reply("update", "200", FALSE, {Row(id, upd)})
    /\ UNCHANGED <<keyword_rules, nextAcct, nextTx, pc, req>>
    /\ UNCHANGED <<user_settings, clientvars>>

\* DELETE /api/transactions/:transaction_id
DeleteTransaction(user, id) ==
    /\ LET txRes == SqlSelectTransaction(transactions, id, user)
       IN  IF txRes = {}
           THEN /\ last' = Response("delete", "404", FALSE)
                /\ UNCHANGED <<accounts, transactions>>
           ELSE LET transaction == CHOOSE r \in txRes : TRUE
                IN  /\ transactions' = SqlDeleteTransaction(transactions, id, user)
                    /\ accounts' = SqlAddBalance(accounts,
                                       NumNeg(Num(transaction.amount)),
                                       transaction.account_id, user)
                    /\ last' = Response("delete", "204", FALSE)
    /\ UNCHANGED <<keyword_rules, nextAcct, nextTx, nUpdates, pc, req>>
    /\ UNCHANGED <<user_settings, clientvars>>

\* Mutant: the handler removes the rows it returns
ListTransactions_Consuming(user, query) ==
    /\ last' = Reply("list", "200", FALSE, SqlListTransactions(transactions, user, query))
                  @@ [caller |-> user, query |-> query]
    /\ transactions' =
          [t \in {x \in DOMAIN transactions : transactions[x].user_id # user} |->
              transactions[t]]
    /\ UNCHANGED <<accounts, keyword_rules, nextAcct, nextTx, nUpdates, pc, req>>
    /\ UNCHANGED <<user_settings, clientvars>>

\* GET /api/transactions.  The reply is recorded together with the caller
\* and the query parameters of the request.
ListTransactions(user, query) ==
    /\ last' = Reply("list", "200", FALSE, SqlListTransactions(transactions, user, query))
                  @@ [caller |-> user, query |-> query]
    /\ UNCHANGED <<dbvars, nextAcct, nextTx, nUpdates, pc, req>>
    /\ UNCHANGED <<user_settings, clientvars>>

\* GET /api/transactions/:transaction_id
GetTransaction(user, id) ==
    /\ LET result == SqlSelectTransaction(transactions, id, user)
       IN  IF result = {}
           THEN last' = Response("get", "404", FALSE)
           ELSE last' = Reply("get", "200", FALSE, {Row(id, r) : r \in result})
    /\ UNCHANGED <<dbvars, nextAcct, nextTx, nUpdates, pc, req>>
    /\ UNCHANGED <<user_settings, clientvars>>

\* POST /api/keyword_rules.  The INSERT fails on a category_id that is not
\* in table categories (fk_keyword_rules_category_id).
CreateKeywordRule(body) ==
    /\ Len(keyword_rules) < MaxRules
    /\ IF FalsyKeyword(body) \/ Falsy(body, "category_id")
       THEN /\ last' = Response("create_rule", "400", FALSE)
            /\ UNCHANGED keyword_rules
       ELSE LET row == [keyword |-> body.keyword, category_id |-> body.category_id]
            IN  IF body.category_id \notin CategoryIds
                THEN /\ last' = Response("create_rule", "500", FALSE)
                     /\ UNCHANGED keyword_rules
                ELSE /\ keyword_rules' = Append(keyword_rules, row)
                     /\ last' = Reply("create_rule", "201", FALSE, {row})
    /\ UNCHANGED <<accounts, transactions, nextAcct, nextTx, nUpdates, pc, req>>
    /\ UNCHANGED <<user_settings, clientvars>>

-----------------------------------------------------------------------------
(* Client store (useAppStore): a zustand store wrapped in persist, which    *)
(* writes partialize(state) to the item 'app_store' of the browser's storage *)
(* after every set() and merges that item into the initial state when the   *)
(* store is created.                                                        *)

\* A property whose value is undefined
UNDEFINED == "undefined"

\* The state create() builds before anything is read from the storage
InitialState ==
    [auth_state |-> [jwt_token |-> "",
                     user_data |-> [id |-> "", email |-> "", name |-> ""],
                     is_authenticated |-> FALSE],
     notification_state |-> << >>,
     global_ui_state |-> [is_notification_center_open |-> FALSE],
     responsive_state |-> [viewport_width |-> 1024, viewport_height |-> 768,
                           device_type |-> "desktop"],
     socket |-> NULL]

\* Mutant: the socket is among the persisted slices
partialize_WithSocket(state) ==
    [auth_state |-> state.auth_state,
     notification_state |-> state.notification_state,
     global_ui_state |-> state.global_ui_state,
     responsive_state |-> state.responsive_state,
     socket |-> state.socket]

\* Only persist the selected slices
partialize(state) ==
    [auth_state |-> state.auth_state,
     notification_state |-> state.notification_state,
     global_ui_state |-> state.global_ui_state,
     responsive_state |-> state.responsive_state]

\* The value JSON.parse gives back for the text JSON.stringify(snapshot):
\* a property whose value is undefined is left out of the text (only
\* auth_state.jwt_token can be undefined, through update_auth_state)
JSONstringify(snapshot) ==
    LET a == snapshot.auth_state
        kept == {f \in DOMAIN a : f # "jwt_token" \/ a[f] # UNDEFINED}
    IN  [snapshot EXCEPT !.auth_state = [f \in kept |-> a[f]]]

\* persist's setItem: the item written after a set() that gave state
Persisted(state) == JSONstringify(partialize(state))

\* persist's hydration: { ...initial state, ...persisted state }
Hydrated(item) ==
    [k \in DOMAIN InitialState \cup DOMAIN item |->
        IF k \in DOMAIN item THEN item[k] ELSE InitialState[k]]

\* The page is loaded for the first time, with an empty storage
ClientInit ==
    /\ store = InitialState
    /\ storage = Persisted(InitialState)
    /\ connections = {}
    /\ nSockets = 0
    /\ nLoads = 1

-----------------------------------------------------------------------------
(* Request bodies *)

\* The bodies that supply field f with a value of S, or omit it
Opt(f, S) == {<< >>} \cup {f :> v : v \in S}

Req(f, S) == {f :> v : v \in S}

AccountBodies ==
    {n @@ t @@ b @@ c :
        n \in Req("account_name", {"Checking"}),
        t \in Req("account_type", {"checking"}),
        b \in Req("initial_balance", InitialBalances),
        c \in Opt("currency", {"USD"})}

CreateBodies ==
    {a @@ d @@ m @@ t @@ x :
        a \in Opt("account_id", AcctIds),
        d \in Opt("date", {"2023-03-15"}),
        m \in Opt("amount", Amounts),
        t \in Opt("transaction_type", {"expense"}),
        x \in Opt("description", {DescUber})}

UpdateBodies ==
    {a @@ m : a \in Opt("account_id", AcctIds), m \in Opt("amount", Amounts)}

Init ==
    /\ accounts = << >>
    /\ transactions = << >>
    /\ keyword_rules = SeedKeywordRules
    /\ nextAcct = 0
    /\ nextTx = 0
    /\ nUpdates = 0
    /\ last = Response("none", "none", FALSE)
    /\ pc = [p \in Procs |-> "idle"]
    /\ req = [p \in Procs |-> << >>]
    /\ user_settings = << >>
    /\ ClientInit

Next ==
    \/ \E u \in Users, b \in AccountBodies : CreateAccount(u, b)
    \/ \E u \in Users, b \in CreateBodies : CreateTransaction(u, b)
    \/ \E u \in Users, id \in TxIds, b \in UpdateBodies : UpdateTransaction(u, id, b)
    \/ \E u \in Users, id \in TxIds : DeleteTransaction(u, id)

Spec == Init /\ [][Next]_vars

-----------------------------------------------------------------------------
(* Concurrent requests.  The handlers are async functions: each await of   *)
(* pool.query is one step, and the steps of different requests interleave. *)
(* No handler opens a storage transaction, so every statement commits on   *)
(* its own.                                                                *)

Finish(p, op, status, kw) ==
    /\ pc' = [pc EXCEPT ![p] = "idle"]
    /\ req' = [req EXCEPT ![p] = << >>]
    /\ last' = Response(op, status, kw)

Goto(p, label, locals) ==
    /\ pc' = [pc EXCEPT ![p] = label]
    /\ req' = [req EXCEPT ![p] = locals]
    /\ UNCHANGED last

\* POST /api/transactions up to its first await
BeginCreate(p, user, body) ==
    /\ pc[p] = "idle"
    /\ nextTx < MaxTx
    /\ IF MissingRequired(body)
       THEN Finish(p, "create", "400", FALSE)
       ELSE Goto(p, IF ReadsKeywordRules(body) THEN "create_rules" ELSE "create_insert",
                 [user |-> user, body |-> body, kw |-> ReadsKeywordRules(body),
                  category_id |-> Categorize(body, << >>)])
    /\ UNCHANGED <<dbvars, nextAcct, nextTx, nUpdates>>
    /\ UNCHANGED <<user_settings, clientvars>>

\* SELECT category_id, keyword FROM keyword_rules, and the loop over its rows
CreateSelectRules(p) ==
    /\ pc[p] = "create_rules"
    /\ \E kwRows \in SqlSelectKeywordRules(keyword_rules) :
          Goto(p, "create_insert",
               [req[p] EXCEPT !.category_id = Categorize(req[p].body, kwRows)])
    /\ UNCHANGED <<dbvars, nextAcct, nextTx, nUpdates>>
    /\ UNCHANGED <<user_settings, clientvars>>

\* INSERT INTO transactions ... RETURNING *
CreateInsert(p) ==
    /\ pc[p] = "create_insert"
    /\ LET r == req[p]
           row == NewTransactionRow(r.user, r.body, r.category_id)
       IN  IF nextTx < MaxTx /\ TransactionRowOk(row, accounts)
           THEN /\ transactions' = transactions @@ ((nextTx + 1) :> row)
                /\ nextTx' = nextTx + 1
                /\ Goto(p, "create_balance", r)
           ELSE /\ Finish(p, "create", "500", r.kw)
                /\ UNCHANGED <<transactions, nextTx>>
    /\ UNCHANGED <<accounts, keyword_rules, nextAcct, nUpdates>>
    /\ UNCHANGED <<user_settings, clientvars>>

\* UPDATE accounts SET current_balance = current_balance + amount
CreateBalance(p) ==
    /\ pc[p] = "create_balance"
    /\ accounts' = SqlAddBalance(accounts, Num(req[p].body.amount),
                                 req[p].body.account_id, req[p].user)
    /\ Finish(p, "create", "201", req[p].kw)
    /\ UNCHANGED <<transactions, keyword_rules, nextAcct, nextTx, nUpdates>>
    /\ UNCHANGED <<user_settings, clientvars>>

\* PUT /api/transactions/:transaction_id up to its first await
BeginUpdate(p, user, id, body) ==
    /\ pc[p] = "idle"
    /\ nUpdates < MaxUpdates
    /\ nUpdates' = nUpdates + 1
    /\ Goto(p, "update_select", [user |-> user, id |-> id, body |-> body])
    /\ UNCHANGED <<dbvars, nextAcct, nextTx>>
    /\ UNCHANGED <<user_settings, clientvars>>

\* SELECT * FROM transactions WHERE id = $1 AND user_id = $2
UpdateSelect(p) ==
    /\ pc[p] = "update_select"
    /\ LET r == req[p]
           oldRes == SqlSelectTransaction(transactions, r.id, r.user)
       IN  IF oldRes = {}
           THEN Finish(p, "update", "404", FALSE)
           ELSE Goto(p, "update_write",
                     [user |-> r.user, id |-> r.id, body |-> r.body,
                      old |-> CHOOSE o \in oldRes : TRUE])
    /\ UNCHANGED <<dbvars, nextAcct, nextTx, nUpdates>>
    /\ UNCHANGED <<user_settings, clientvars>>

\* UPDATE transactions SET ... WHERE id = $9 AND user_id = $10 RETURNING *
\* (result.rows[0] is undefined when the row is gone; the same-account
\* branch then throws on updatedTransaction.amount before any statement)
UpdateWrite(p) ==
    /\ pc[p] = "update_write"
    /\ LET r == req[p]
           cur == SqlSelectTransaction(transactions, r.id, r.user)
       IN  IF cur = {}
           THEN /\ IF AccountChanged(r.body, r.old)
                   THEN Goto(p, "update_reverse", r @@ [upd |-> << >>])
                   ELSE Finish(p, "update", "500", FALSE)
                /\ UNCHANGED transactions
           ELSE LET upd == UpdatedRow(CHOOSE c \in cur : TRUE, r.body)
                IN  IF ~TransactionRowOk(upd, accounts)
                    THEN /\ Finish(p, "update", "500", FALSE)
                         /\ UNCHANGED transactions
                    ELSE /\ transactions' = [transactions EXCEPT ![r.id] = upd]
                         /\ Goto(p, IF AccountChanged(r.body, r.old)
                                    THEN "update_reverse" ELSE "update_adjust",
                                 r @@ [upd |-> upd])
    /\ UNCHANGED <<accounts, keyword_rules, nextAcct, nextTx, nUpdates>>
    /\ UNCHANGED <<user_settings, clientvars>>

\* Reverse the old transaction on the previous account
UpdateReverse(p) ==
    /\ pc[p] = "update_reverse"
    /\ LET r == req[p]
       IN  /\ accounts' = SqlAddBalance(accounts, NumNeg(Num(r.old.amount)),
                                        r.old.account_id, r.user)
           /\ IF r.upd = << >>
              THEN Finish(p, "update", "500", FALSE)
              ELSE Goto(p, "update_apply", r)
    /\ UNCHANGED <<transactions, keyword_rules, nextAcct, nextTx, nUpdates>>
    /\ UNCHANGED <<user_settings, clientvars>>

\* Apply the updated transaction amount on the new account
UpdateApply(p) ==
    /\ pc[p] = "update_apply"
    /\ LET r == req[p]
       IN  accounts' = SqlAddBalance(accounts, Num(r.upd.amount),
                                     r.body.account_id, r.user)
    /\ Finish(p, "update", "200", FALSE)
    /\ UNCHANGED <<transactions, keyword_rules, nextAcct, nextTx, nUpdates>>
    /\ UNCHANGED <<user_settings, clientvars>>

\* Same account: adjust by the difference between new and old amounts
UpdateAdjust(p) ==
    /\ pc[p] = "update_adjust"
    /\ LET r == req[p]
       IN  accounts' = SqlAddBalance(accounts, JsSub(r.upd.amount, r.old.amount),
                                     r.old.account_id, r.user)
    /\ Finish(p, "update", "200", FALSE)
    /\ UNCHANGED <<transactions, keyword_rules, nextAcct, nextTx, nUpdates>>
    /\ UNCHANGED <<user_settings, clientvars>>

\* DELETE /api/transactions/:transaction_id up to its first await
BeginDelete(p, user, id) ==
    /\ pc[p] = "idle"
    /\ Goto(p, "delete_select", [user |-> user, id |-> id])
    /\ UNCHANGED <<dbvars, nextAcct, nextTx, nUpdates>>
    /\ UNCHANGED <<user_settings, clientvars>>

\* SELECT * FROM transactions WHERE id = $1 AND user_id = $2
DeleteSelect(p) ==
    /\ pc[p] = "delete_select"
    /\ LET r == req[p]
           txRes == SqlSelectTransaction(transactions, r.id, r.user)
       IN  IF txRes = {}
           THEN Finish(p, "delete", "404", FALSE)
           ELSE Goto(p, "delete_row",
                     [user |-> r.user, id |-> r.id,
                      transaction |-> CHOOSE t \in txRes : TRUE])
    /\ UNCHANGED <<dbvars, nextAcct, nextTx, nUpdates>>
    /\ UNCHANGED <<user_settings, clientvars>>

DeleteRow(p) ==
    /\ pc[p] = "delete_row"
    /\ transactions' = SqlDeleteTransaction(transactions, req[p].id, req[p].user)
    /\ Goto(p, "delete_balance", req[p])
    /\ UNCHANGED <<accounts, keyword_rules, nextAcct, nextTx, nUpdates>>
    /\ UNCHANGED <<user_settings, clientvars>>

\* Reverse the effect on account balance
DeleteBalance(p) ==
    /\ pc[p] = "delete_balance"
    /\ LET transaction == req[p].transaction
       IN  accounts' = SqlAddBalance(accounts, NumNeg(Num(transaction.amount)),
                                     transaction.account_id, req[p].user)
    /\ Finish(p, "delete", "204", FALSE)
    /\ UNCHANGED <<transactions, keyword_rules, nextAcct, nextTx, nUpdates>>
    /\ UNCHANGED <<user_settings, clientvars>>

\* The concurrent specifications start with two accounts that user1 has
\* created through POST /api/accounts
ConcUsers == {"user1"}

ConcAccount ==
    [user_id |-> "user1", account_name |-> "Checking", account_type |-> "checking",
     initial_balance |-> Num(10), current_balance |-> Num(10), currency |-> "USD"]

ConcCreateBodies ==
    {a @@ d @@ m @@ t @@ x :
        a \in Req("account_id", {1, 2}),
        d \in Req("date", {"2023-03-15"}),
        m \in Req("amount", Amounts),
        t \in Opt("transaction_type", {"expense"}),
        x \in Opt("description", {DescUber})}

\* Bodies of the specification of all three writers
LedgerCreateBodies ==
    {a @@ d @@ m @@ t :
        a \in Req("account_id", {1}),
        d \in Req("date", {"2023-03-15"}),
        m \in Req("amount", Amounts),
        t \in Req("transaction_type", {"expense"})}

ConcUpdateBodies ==
    {a @@ m : a \in Opt("account_id", {2}), m \in Opt("amount", Amounts)}

InitConc ==
    /\ accounts = (1 :> ConcAccount) @@ (2 :> ConcAccount)
    /\ transactions = << >>
    /\ keyword_rules = SeedKeywordRules
    /\ nextAcct = 2
    /\ nextTx = 0
    /\ nUpdates = 0
    /\ last = Response("none", "none", FALSE)
    /\ pc = [p \in Procs |-> "idle"]
    /\ req = [p \in Procs |-> << >>]
    /\ user_settings = << >>
    /\ ClientInit

CreateSteps(p) ==
    \/ \E u \in ConcUsers, b \in ConcCreateBodies : BeginCreate(p, u, b)
    \/ CreateSelectRules(p)
    \/ CreateInsert(p)
    \/ CreateBalance(p)

UpdateSteps(p) ==
    \/ \E u \in ConcUsers, id \in TxIds, b \in ConcUpdateBodies : BeginUpdate(p, u, id, b)
    \/ UpdateSelect(p)
    \/ UpdateWrite(p)
    \/ UpdateReverse(p)
    \/ UpdateApply(p)
    \/ UpdateAdjust(p)

DeleteSteps(p) ==
    \/ \E u \in ConcUsers, id \in TxIds : BeginDelete(p, u, id)
    \/ DeleteSelect(p)
    \/ DeleteRow(p)
    \/ DeleteBalance(p)

NextCreate == \E p \in Procs : CreateSteps(p)

\* Concurrent CreateTransaction requests only
SpecCreate == InitConc /\ [][NextCreate]_vars

NextConc ==
    \E p \in Procs :
        \/ \E u \in ConcUsers, b \in LedgerCreateBodies : BeginCreate(p, u, b)
        \/ CreateInsert(p)
        \/ CreateBalance(p)
        \/ UpdateSteps(p)
        \/ DeleteSteps(p)

\* Concurrent create, update and delete requests
SpecConc == InitConc /\ [][NextConc]_vars

-----------------------------------------------------------------------------
(* Storage failures.  pool.query rejects when the store fails (connection  *)
(* lost, statement timeout, ...): the await throws and the handler's catch *)
(* block answers 500.  The failures modelled are those of the balance      *)
(* statements, which run after the record statement has committed.         *)

\* POST /api/transactions: the balance UPDATE rejects
CreateBalanceFails(p) ==
    /\ pc[p] = "create_balance"
    /\ Finish(p, "create", "500", req[p].kw)
    /\ UNCHANGED <<dbvars, nextAcct, nextTx, nUpdates>>
    /\ UNCHANGED <<user_settings, clientvars>>

\* PUT /api/transactions/:transaction_id: a balance UPDATE rejects
UpdateBalanceFails(p) ==
    /\ pc[p] \in {"update_reverse", "update_apply", "update_adjust"}
    /\ Finish(p, "update", "500", FALSE)
    /\ UNCHANGED <<dbvars, nextAcct, nextTx, nUpdates>>
    /\ UNCHANGED <<user_settings, clientvars>>

\* DELETE /api/transactions/:transaction_id: the balance UPDATE rejects
DeleteBalanceFails(p) ==
    /\ pc[p] = "delete_balance"
    /\ Finish(p, "delete", "500", FALSE)
    /\ UNCHANGED <<dbvars, nextAcct, nextTx, nUpdates>>
    /\ UNCHANGED <<user_settings, clientvars>>

\* One request at a time
FailProcs == {"p1"}

NextFail ==
    \E p \in FailProcs :
        \/ \E u \in ConcUsers, b \in LedgerCreateBodies : BeginCreate(p, u, b)
        \/ CreateInsert(p)
        \/ CreateBalance(p)
        \/ CreateBalanceFails(p)
        \/ UpdateSteps(p)
        \/ UpdateBalanceFails(p)
        \/ DeleteSteps(p)
        \/ DeleteBalanceFails(p)

\* Requests one after another, whose balance statements may fail
SpecFail == InitConc /\ [][NextFail]_vars

-----------------------------------------------------------------------------
(* Categorization.  user1 creates keyword rules and then transactions on   *)
(* its account 1, with and without a description and a category.           *)

\* The descriptions "TUB" (contains "ub" when case is ignored) and "TL"
DescTub == <<"T", "U", "B">>

DescTL == <<"T", "L">>

\* The keywords "ub" and "BER", both contained in "UBER" when case is ignored
RuleBodies ==
    {k @@ c :
        k \in Opt("keyword", {<<"u", "b">>, <<"B", "E", "R">>}),
        c \in Opt("category_id", {"cat1", "cat3", "cat0"})}

CategorizeBodies ==
    {a @@ d @@ m @@ t @@ x @@ c :
        a \in Req("account_id", {1}),
        d \in Req("date", {"2023-03-15"}),
        m \in Req("amount", {1}),
        t \in Req("transaction_type", {"expense"}),
        x \in Opt("description", {EmptyStr, DescUber, DescTub, DescTL}),
        c \in Opt("category_id", {"cat3"})}

NextCategorize ==
    \/ \E b \in RuleBodies : CreateKeywordRule(b)
    \/ \E u \in ConcUsers, b \in CategorizeBodies : CreateTransaction(u, b)

SpecCategorize == InitConc /\ [][NextCategorize]_vars

-----------------------------------------------------------------------------
(* Reads.  user1 owns account 1 and user2 owns account 2; both create      *)
(* transactions that differ in account, date, type and category, and list  *)
(* them with every combination of filters.                                 *)

ListCreateBodies ==
    {a @@ d @@ m @@ t @@ x :
        a \in Req("account_id", AcctIds),
        d \in Req("date", {"2023-03-15", "2023-04-01"}),
        m \in Req("amount", {1}),
        t \in Req("transaction_type", {"expense", "income"}),
        x \in Opt("description", {DescUber})}

\* The body of the transactions user2 creates on its account
OtherUserBodies ==
    {b \in ListCreateBodies :
        /\ b.account_id = 2 /\ b.date = "2023-03-15"
        /\ b.transaction_type = "expense" /\ Has(b, "description")}

Queries ==
    {a @@ c @@ s @@ e @@ t :
        a \in Opt("account_id", {1}),
        c \in Opt("category_id", {"cat2"}),
        s \in Opt("start_date", {"2023-04-01"}),
        e \in Opt("end_date", {"2023-03-15"}),
        t \in Opt("transaction_type", {"", "expense"})}

InitList ==
    /\ accounts = (1 :> ConcAccount) @@ (2 :> [ConcAccount EXCEPT !.user_id = "user2"])
    /\ transactions = << >>
    /\ keyword_rules = SeedKeywordRules
    /\ nextAcct = 2
    /\ nextTx = 0
    /\ nUpdates = 0
    /\ last = Response("none", "none", FALSE)
    /\ pc = [p \in Procs |-> "idle"]
    /\ req = [p \in Procs |-> << >>]
    /\ user_settings = << >>
    /\ ClientInit

NextList ==
    \/ \E b \in ListCreateBodies : CreateTransaction("user1", b)
    \/ \E b \in OtherUserBodies : CreateTransaction("user2", b)
    \/ \E u \in Users, q \in Queries : ListTransactions(u, q)
    \/ \E u \in Users, id \in TxIds : GetTransaction(u, id)

SpecList == InitList /\ [][NextList]_vars

\* Create requests alone, with complete and incomplete bodies, by two users
NextValidate == \E u \in Users, b \in CreateBodies : CreateTransaction(u, b)

SpecValidate == InitList /\ [][NextValidate]_vars

\* The queries without a filter or with an account filter
AccountQueries == {q \in Queries : DOMAIN q \subseteq {"account_id"}}

\* Complete bodies without a description
IsolationCreateBodies ==
    {b \in CreateBodies : ~MissingRequired(b) /\ ~Has(b, "description")}

NextIsolation ==
    \/ \E u \in Users, b \in AccountBodies : CreateAccount(u, b)
    \/ \E u \in Users, b \in IsolationCreateBodies : CreateTransaction(u, b)
    \/ \E u \in Users, id \in TxIds, b \in UpdateBodies : UpdateTransaction(u, id, b)
    \/ \E u \in Users, id \in TxIds : DeleteTransaction(u, id)
    \/ \E u \in Users, q \in AccountQueries : ListTransactions(u, q)
    \/ \E u \in Users, id \in TxIds : GetTransaction(u, id)

\* Every request of the ledger, writes and reads, by two users
SpecIsolation == Init /\ [][NextIsolation]_vars

-----------------------------------------------------------------------------
(* Updates of every column.  user1 has two accounts and updates its        *)
(* transactions with bodies that supply any subset of the seven columns    *)
(* the UPDATE statement sets.                                              *)

UpdatableFields ==
    {"account_id", "date", "amount", "transaction_type", "description",
     "category_id", "recurrence"}

AllFieldBodies ==
    {a @@ d @@ m @@ t @@ x @@ c @@ r :
        a \in Opt("account_id", {2}),
        d \in Opt("date", {"2023-04-01"}),
        m \in Opt("amount", {1}),
        t \in Opt("transaction_type", {"income"}),
        x \in Opt("description", {EmptyStr, DescUber}),
        c \in Opt("category_id", {"cat1"}),
        r \in Opt("recurrence", {"monthly"})}

\* The bodies that supply at most MaxSupplied columns
UpdateFieldBodies == {b \in AllFieldBodies : Cardinality(DOMAIN b) <= MaxSupplied}

NextUpdate ==
    \/ \E u \in ConcUsers, b \in LedgerCreateBodies : CreateTransaction(u, b)
    \/ \E u \in ConcUsers, id \in TxIds, b \in UpdateFieldBodies :
          UpdateTransaction(u, id, b)

SpecUpdate == InitConc /\ [][NextUpdate]_vars

-----------------------------------------------------------------------------
(* Properties *)

RECURSIVE Sum(_, _)
Sum(f, S) ==
    IF S = {} THEN 0
    ELSE LET x == CHOOSE y \in S : TRUE IN f[x] + Sum(f, S \ {x})

\* Sum of the amounts of the transactions that reference account a
SumAmounts(txs, a) ==
    LET on == {i \in DOMAIN txs : txs[i].account_id = a}
    IN  Sum([i \in on |-> txs[i].amount], on)

LedgerHolds(a) ==
    accounts[a].current_balance =
        NumAdd(accounts[a].initial_balance, Num(SumAmounts(transactions, a)))

Owns(u, a) == a \in DOMAIN accounts /\ accounts[a].user_id = u

RequiredFields == {"account_id", "date", "amount", "transaction_type"}

\* Every account other than those in S keeps its row
OtherAccountsUnchanged(S) ==
    /\ DOMAIN accounts' = DOMAIN accounts
    /\ \A a \in DOMAIN accounts \ S : accounts'[a] = accounts[a]

\* C1: after any sequence of transaction create, update and delete requests
\* run one after another, every account has
\* current_balance = initial_balance + sum of its transactions' amounts.
C1_LedgerInvariant == \A a \in DOMAIN accounts : LedgerHolds(a)

\* A request has executed its transaction-record statement and still has a
\* balance statement to run
HalfApplied(q) ==
    pc[q] \in {"create_balance", "update_reverse", "update_apply", "update_adjust",
               "delete_balance"}

\* The next statement of request p reads table transactions
Observes(p) == pc[p] \in {"update_select", "delete_select"}

\* C2: a transaction write is one atomic unit: whenever a request p is about
\* to read the store while another request q is between its record statement
\* and its balance statement, the store p sees still satisfies the ledger
\* invariant.
C2_AtomicUnit ==
    \A p \in Procs : \A q \in Procs \ {p} :
        (Observes(p) /\ HalfApplied(q)) => \A a \in DOMAIN accounts : LedgerHolds(a)

\* Sum of the amounts that in-flight creates have inserted for account a but
\* not yet added to its balance
PendingCreates(a) ==
    LET on == {p \in Procs : pc[p] = "create_balance" /\ req[p].body.account_id = a}
    IN  Sum([p \in on |-> req[p].body.amount], on)

\* C3: no lost update under concurrent creates: an account's balance is its
\* initial balance plus every created amount whose balance statement has
\* run; once all requests have completed that is the sum of all created
\* amounts.
C3_NoLostUpdate ==
    \A a \in DOMAIN accounts :
        accounts[a].current_balance =
            NumAdd(accounts[a].initial_balance,
                   Num(SumAmounts(transactions, a) - PendingCreates(a)))

\* Two creates on account 1 overlapped: one has completed while the other is
\* between its INSERT and its balance statement
C3_Witness ==
    /\ pc["p1"] = "create_balance" /\ req["p1"].body.account_id = 1
    /\ pc["p2"] = "idle"
    /\ DOMAIN transactions = {1, 2}
    /\ transactions[1].account_id = 1 /\ transactions[2].account_id = 1
    /\ last = Response("create", "201", FALSE)

\* C4: a successful create with amount a on an account the caller owns
\* persists exactly one new transaction with that amount and account, adds
\* exactly a to that account's balance and changes no other account and no
\* existing transaction.
C4_CreateEffect ==
    [][last'.op = "create" /\ last'.status = "201" =>
       \A u \in Users, b \in CreateBodies :
        (/\ ~MissingRequired(b)
         /\ Owns(u, b.account_id)
         /\ CreateTransaction(u, b))
        => /\ \E id \in DOMAIN transactions' \ DOMAIN transactions :
                /\ DOMAIN transactions' = DOMAIN transactions \cup {id}
                /\ transactions'[id].amount = b.amount
                /\ transactions'[id].account_id = b.account_id
           /\ \A t \in DOMAIN transactions : transactions'[t] = transactions[t]
           /\ accounts'[b.account_id] =
                 [accounts[b.account_id] EXCEPT
                    !.current_balance = NumAdd(@, Num(b.amount))]
           /\ OtherAccountsUnchanged({b.account_id})]_vars

\* A create succeeded on an owned account while a second account exists
C4_Witness ==
    /\ last.op = "create" /\ last.status = "201"
    /\ DOMAIN accounts = {1, 2}
    /\ \E t \in DOMAIN transactions :
          /\ Owns(transactions[t].user_id, transactions[t].account_id)
          /\ accounts[transactions[t].account_id].current_balance
                # accounts[transactions[t].account_id].initial_balance

\* The create names an account that is absent or that another user owns
ForeignAccount(u, b) ==
    RequiredFields \subseteq DOMAIN b /\ ~Owns(u, b.account_id)

\* C5: a create that names an account that does not exist or is not owned by
\* the caller persists nothing: transactions and balances are as before.
C5_NothingPersists ==
    [][last'.op = "create" => \A u \in Users, b \in CreateBodies :
        (ForeignAccount(u, b) /\ CreateTransaction(u, b))
        => (transactions' = transactions /\ accounts' = accounts)]_vars

\* C6: a create that names an account that is absent or not owned by the
\* caller is answered with NotFound (404).
C6_ReportsNotFound ==
    [][last'.op = "create" => \A u \in Users, b \in CreateBodies :
        (ForeignAccount(u, b) /\ CreateTransaction(u, b))
        => last'.status = "404"]_vars

\* C7: a create that lacks account, date, amount or type is answered with
\* ValidationError (400), inserts nothing, modifies no balance and does not
\* read the keyword rules.
C7_ValidationError ==
    [][last'.op = "create" => \A u \in Users, b \in CreateBodies :
        (/\ ~(RequiredFields \subseteq DOMAIN b)
         /\ CreateTransaction(u, b))
        => /\ last' = Response("create", "400", FALSE)
           /\ UNCHANGED <<accounts, transactions, keyword_rules, nextTx>>]_vars

\* A create was refused with 400 in a store that holds a transaction
C7_Witness ==
    /\ last = Response("create", "400", FALSE)
    /\ DOMAIN transactions # {}
    /\ nextTx < MaxTx

\* C8: an update that keeps the account (here: an account the caller owns)
\* changes that account's balance by exactly new_amount - old_amount and no
\* other account; with the amount omitted or equal, the balance is unchanged.
C8_SameAccountDelta ==
    [][last'.op = "update" => \A u \in Users, id \in TxIds, b \in UpdateBodies :
        (/\ last'.status = "200"
         /\ id \in DOMAIN transactions
         /\ ~AccountChanged(b, transactions[id])
         /\ Owns(u, transactions[id].account_id)
         /\ UpdateTransaction(u, id, b))
        => LET old == transactions[id]
               new == transactions'[id]
           IN  /\ accounts'[old.account_id] =
                     [accounts[old.account_id] EXCEPT
                        !.current_balance = NumAdd(@, Num(new.amount - old.amount))]
               /\ OtherAccountsUnchanged({old.account_id})
               /\ (~Has(b, "amount") \/ b.amount = old.amount) => accounts' = accounts]_vars

\* C9: an update that moves a transaction from account A to account B, both
\* owned by the caller, subtracts the old amount from A, adds the new amount
\* to B and changes no other account; with the amount unchanged the sum of
\* the two balances is preserved.
C9_AccountChange ==
    [][last'.op = "update" => \A u \in Users, id \in TxIds, b \in UpdateBodies :
        (/\ last'.status = "200"
         /\ id \in DOMAIN transactions
         /\ AccountChanged(b, transactions[id])
         /\ Owns(u, transactions[id].account_id)
         /\ Owns(u, b.account_id)
         /\ UpdateTransaction(u, id, b))
        => LET old == transactions[id]
               new == transactions'[id]
               A == old.account_id
               B == b.account_id
           IN  /\ accounts'[A] = [accounts[A] EXCEPT
                     !.current_balance = NumAdd(@, NumNeg(Num(old.amount)))]
               /\ accounts'[B] = [accounts[B] EXCEPT
                     !.current_balance = NumAdd(@, Num(new.amount))]
               /\ OtherAccountsUnchanged({A, B})
               /\ new.amount = old.amount =>
                     NumAdd(accounts'[A].current_balance, accounts'[B].current_balance)
                       = NumAdd(accounts[A].current_balance, accounts[B].current_balance)]_vars

\* A transaction of user1 sits on account 2 after an update, both accounts
\* are user1's, and account 1 carries no transaction
C9_Witness ==
    /\ last.op = "update" /\ last.status = "200"
    /\ DOMAIN accounts = {1, 2}
    /\ accounts[1].user_id = "user1" /\ accounts[2].user_id = "user1"
    /\ DOMAIN transactions = {1}
    /\ transactions[1].user_id = "user1" /\ transactions[1].account_id = 2
    /\ accounts[1].current_balance = accounts[1].initial_balance
    /\ accounts[2].current_balance # accounts[2].initial_balance

\* C10: an update that moves a transaction off an account the caller owns to
\* one that is absent or not owned by the caller persists nothing: the old
\* account is not debited and the transaction keeps its account and amount.
C10_AllOrNothing ==
    [][last'.op = "update" => \A u \in Users, id \in TxIds, b \in UpdateBodies :
        (/\ SqlSelectTransaction(transactions, id, u) # {}
         /\ AccountChanged(b, transactions[id])
         /\ Owns(u, transactions[id].account_id)
         /\ ~Owns(u, b.account_id)
         /\ UpdateTransaction(u, id, b))
        => (accounts' = accounts /\ transactions' = transactions)]_vars

\* C11: a successful update has partial-update semantics: each of account,
\* date, amount, type, description, category and recurrence takes the value
\* the request supplies and keeps its stored value when the request omits
\* it; the id and the owning user do not change, no other transaction
\* changes, and the response carries the transaction as stored afterwards.
C11_PartialUpdate ==
    [][last'.op = "update" /\ last'.status = "200" =>
       \A u \in ConcUsers, id \in TxIds, b \in UpdateFieldBodies :
        UpdateTransaction(u, id, b)
        => LET old == transactions[id]
               new == transactions'[id]
           IN  /\ \A f \in UpdatableFields :
                     new[f] = IF f \in DOMAIN b THEN b[f] ELSE old[f]
               /\ new.user_id = old.user_id
               /\ DOMAIN transactions' = DOMAIN transactions
               /\ \A t \in DOMAIN transactions \ {id} :
                     transactions'[t] = transactions[t]
               /\ last'.rows = {[id |-> id] @@ new}]_vars

\* An update supplied category and recurrence and omitted date and amount:
\* the response shows the new category and recurrence with the stored date
\* and amount
C11_Witness ==
    /\ last.op = "update" /\ last.status = "200"
    /\ \E r \in last.rows :
          /\ r.category_id = "cat1" /\ r.recurrence = "monthly"
          /\ r.date = "2023-03-15" /\ r.amount = -2
          /\ transactions[r.id].category_id = "cat1"

\* The caller has no transaction with this id
NotOwnTransaction(u, id) ==
    ~(id \in DOMAIN transactions /\ transactions[id].user_id = u)

\* C12: an update or delete of a transaction id that is absent or that
\* another user owns is answered with NotFound (404) and changes no
\* transaction and no account.
C12_NotFound ==
    [][last'.op \in {"update", "delete"} =>
       \A u \in Users, id \in TxIds :
        /\ \A b \in UpdateBodies :
             (NotOwnTransaction(u, id) /\ UpdateTransaction(u, id, b))
             => /\ last' = Response("update", "404", FALSE)
                /\ UNCHANGED <<accounts, transactions>>
        /\ (NotOwnTransaction(u, id) /\ DeleteTransaction(u, id))
             => /\ last' = Response("delete", "404", FALSE)
                /\ UNCHANGED <<accounts, transactions>>]_vars

\* A delete was refused with 404 while every transaction id exists: the
\* transaction it named belongs to the other user
C12_Witness ==
    /\ last = Response("delete", "404", FALSE)
    /\ DOMAIN transactions = TxIds
    /\ \E t \in TxIds : transactions[t].user_id = "user2"

\* C13: a successful delete of a transaction with amount a removes exactly
\* that record, changes the balance of the account the transaction
\* references by exactly -a and changes no other transaction and no other
\* account.
C13_DeleteEffect ==
    [][last'.op = "delete" /\ last'.status = "204" =>
       \A u \in Users, id \in TxIds :
        DeleteTransaction(u, id)
        => LET old == transactions[id]
           IN  /\ DOMAIN transactions' = DOMAIN transactions \ {id}
               /\ \A t \in DOMAIN transactions' : transactions'[t] = transactions[t]
               /\ accounts'[old.account_id] =
                     [accounts[old.account_id] EXCEPT
                        !.current_balance = NumAdd(@, NumNeg(Num(old.amount)))]
               /\ OtherAccountsUnchanged({old.account_id})]_vars

\* The transactions table without row id
WithoutRow(txs, id) == [t \in DOMAIN txs \ {id} |-> txs[t]]

\* C14: no partial failure is left behind.  When a balance statement of a
\* create, update or delete fails (requests run one at a time), the request
\* is answered with an error and the store is as it was before the request:
\* the inserted row is gone, the updated row has its old columns again, the
\* deleted row is back, and every balance is as before the request.
C14_RolledBack ==
    [][\A p \in FailProcs :
        /\ CreateBalanceFails(p)
             => /\ last'.status = "500"
                /\ transactions' = WithoutRow(transactions, nextTx)
                /\ accounts' = accounts
        /\ UpdateBalanceFails(p)
             => /\ last'.status = "500"
                /\ transactions' = [transactions EXCEPT ![req[p].id] = req[p].old]
                /\ accounts' =
                      IF pc[p] = "update_apply"
                      THEN SqlAddBalance(accounts, Num(req[p].old.amount),
                                         req[p].old.account_id, req[p].user)
                      ELSE accounts
        /\ DeleteBalanceFails(p)
             => /\ last'.status = "500"
                /\ transactions' = transactions @@ (req[p].id :> req[p].transaction)
                /\ accounts' = accounts]_vars

\* Upper-case and lower-case forms of the letters used in keywords and
\* descriptions
CasePairs ==
    {<<"S", "s">>, <<"U", "u">>, <<"E", "e">>, <<"B", "b">>, <<"R", "r">>,
     <<"T", "t">>, <<"L", "l">>, <<"C", "c">>, <<"A", "a">>}

SameLetter(a, b) == a = b \/ <<a, b>> \in CasePairs \/ <<b, a>> \in CasePairs

\* k is a substring of d when case is ignored
ContainsIgnoringCase(d, k) ==
    \E i \in 0..(Len(d) - Len(k)) : \A j \in 1..Len(k) : SameLetter(d[i + j], k[j])

\* The category of the first rule of the sequence rules whose keyword the
\* description contains, or null
FirstInOrder(d, rules) ==
    LET hits == {i \in 1..Len(rules) : ContainsIgnoringCase(d, rules[i].keyword)}
    IN  IF hits = {} THEN NULL
        ELSE rules[CHOOSE i \in hits : \A j \in hits : i <= j].category_id

NoDescription(b) == ~Has(b, "description") \/ b.description = EmptyStr

\* C15: a create without an explicit category stores, for a non-empty
\* description, the category of the first rule, in the order the rules were
\* read, whose keyword is a case-insensitive substring of the description,
\* and null when no rule matches or the description is empty or absent.
C15_Categorization ==
    [][last'.op = "create" /\ last'.status = "201" =>
       LET reads == SqlSelectKeywordRules(keyword_rules)
       IN  \A u \in ConcUsers, b \in CategorizeBodies :
            ~Has(b, "category_id") =>
              \A kwRows \in reads :
                CreateTransactionWith(u, b, kwRows)
                => transactions'[nextTx'].category_id =
                      IF NoDescription(b) THEN NULL
                      ELSE FirstInOrder(b.description, kwRows)]_vars

\* "UBER" was categorized by the seed rule "Uber" while a created rule that
\* also matches it is in the table, and another transaction stayed
\* uncategorized
C15_Witness ==
    /\ last.op = "create" /\ last.status = "201" /\ last.kw_read
    /\ \E r \in last.rows : r.description = DescUber /\ r.category_id = "cat2"
    /\ \E i \in 1..Len(keyword_rules) :
          /\ keyword_rules[i].keyword = <<"u", "b">>
          /\ keyword_rules[i].category_id = "cat1"
    /\ \E t \in DOMAIN transactions :
          transactions[t].description = DescTL /\ transactions[t].category_id = NULL

\* C16: the rules are iterated in the order of their insertion: a create
\* without an explicit category stores the category of the earliest
\* inserted rule that matches the description, whichever rules were created.
C16_InsertionOrder ==
    [][last'.op = "create" /\ last'.status = "201" =>
       \A u \in ConcUsers, b \in CategorizeBodies :
          (~Has(b, "category_id") /\ ~NoDescription(b) /\ CreateTransaction(u, b))
          => transactions'[nextTx'].category_id =
                FirstInOrder(b.description, keyword_rules)]_vars

\* C17: a create that supplies a category stores exactly that category,
\* whatever the description and the rules, and does not read the rules.
C17_ExplicitCategory ==
    [][last'.op = "create" =>
       \A u \in ConcUsers, b \in CategorizeBodies :
          (Has(b, "category_id") /\ CreateTransaction(u, b))
          => /\ last'.status = "201"
             /\ transactions'[nextTx'].category_id = b.category_id
             /\ last'.kw_read = FALSE
             /\ UNCHANGED keyword_rules]_vars

\* A transaction described "UBER" was stored with the supplied category cat3
\* while the table holds rules that map "UBER" to cat2 and to cat1
C17_Witness ==
    /\ last.op = "create" /\ last.status = "201" /\ ~last.kw_read
    /\ \E r \in last.rows : r.description = DescUber /\ r.category_id = "cat3"
    /\ \E i \in 1..Len(keyword_rules) :
          /\ keyword_rules[i].keyword = <<"u", "b">>
          /\ keyword_rules[i].category_id = "cat1"

\* A filter counts as supplied when the query carries a non-empty value
\* (account ids are never empty)
Supplied(q, f) == f \in DOMAIN q /\ (f = "account_id" \/ q[f] # "")

\* Transaction t passes every supplied filter of q
PassesFilters(t, q) ==
    /\ Supplied(q, "account_id") => transactions[t].account_id = q.account_id
    /\ Supplied(q, "category_id") => transactions[t].category_id = q.category_id
    /\ Supplied(q, "start_date") => TextOrd(q.start_date) <= TextOrd(transactions[t].date)
    /\ Supplied(q, "end_date") => TextOrd(transactions[t].date) <= TextOrd(q.end_date)
    /\ Supplied(q, "transaction_type") =>
          transactions[t].transaction_type = q.transaction_type

\* C18: a list request returns exactly the caller's own transactions that
\* pass all the supplied filters (account, category, start date, end date,
\* type); an omitted filter constrains nothing, and without filters the
\* result is all of the caller's transactions.
C18_ListFilters ==
    [][last'.op = "list" =>
        /\ last'.status = "200"
        /\ {r.id : r \in last'.rows} =
              {t \in DOMAIN transactions :
                  /\ transactions[t].user_id = last'.caller
                  /\ PassesFilters(t, last'.query)}
        /\ \A r \in last'.rows : r = [id |-> r.id] @@ transactions[r.id]
        /\ last'.query = << >> =>
              {r.id : r \in last'.rows} =
                 {t \in DOMAIN transactions : transactions[t].user_id = last'.caller}]_vars

\* user1 listed with an account and an end-date filter and got one of its
\* two transactions, while a transaction of user2 on that account exists
C18_Witness ==
    /\ last.op = "list" /\ last.caller = "user1"
    /\ DOMAIN last.query = {"account_id", "end_date"}
    /\ Cardinality(last.rows) = 1
    /\ Cardinality({t \in DOMAIN transactions : transactions[t].user_id = "user1"}) = 2

Isolated(u) ==
    /\ \A r \in last'.rows : r.user_id = u
    /\ \A t \in DOMAIN transactions :
          transactions[t].user_id # u =>
             t \in DOMAIN transactions' /\ transactions'[t] = transactions[t]
    /\ \A a \in DOMAIN accounts :
          accounts[a].user_id # u =>
             /\ a \in DOMAIN accounts'
             /\ accounts'[a].current_balance = accounts[a].current_balance

\* C20: user isolation: no get, list, create, update or delete of a caller
\* returns, modifies or deletes a transaction of another user or changes the
\* balance of an account of another user.
C20_UserIsolation ==
    [][/\ last'.op = "create" =>
            \A u \in Users, b \in IsolationCreateBodies :
               CreateTransaction(u, b) => Isolated(u)
       /\ last'.op = "update" =>
            \A u \in Users, id \in TxIds, b \in UpdateBodies :
               UpdateTransaction(u, id, b) => Isolated(u)
       /\ last'.op = "delete" =>
            \A u \in Users, id \in TxIds : DeleteTransaction(u, id) => Isolated(u)
       /\ last'.op = "list" =>
            \A u \in Users, q \in AccountQueries : ListTransactions(u, q) => Isolated(u)
       /\ last'.op = "get" =>
            \A u \in Users, id \in TxIds : GetTransaction(u, id) => Isolated(u)]_vars

\* A caller created a transaction on an account of the other user, whose
\* balance is still the initial one
C20_Witness ==
    /\ last.op = "create" /\ last.status = "201"
    /\ \E r \in last.rows :
          /\ accounts[r.account_id].user_id # r.user_id
          /\ accounts[r.account_id].current_balance
                = accounts[r.account_id].initial_balance

-----------------------------------------------------------------------------
(* Account edits.  user1 records transactions on its accounts, and the      *)
(* accounts are edited through PUT /api/accounts/:account_id, by their      *)
(* owner and by user2.                                                      *)

\* PUT /api/accounts/:account_id: one UPDATE ... SET account_name =
\* COALESCE($1, account_name), account_type = COALESCE($2, account_type),
\* initial_balance = COALESCE($3, initial_balance), currency = COALESCE($4,
\* currency) WHERE id = $6 AND user_id = $7 RETURNING *
UpdateAccount(user, id, body) ==
    /\ IF id \in DOMAIN accounts /\ accounts[id].user_id = user
       THEN LET old == accounts[id]
                row == [old EXCEPT
                          !.account_name = COALESCE(body, "account_name", old.account_name),
                          !.account_type = COALESCE(body, "account_type", old.account_type),
                          !.initial_balance =
                              IF Has(body, "initial_balance")
                              THEN Num(body.initial_balance)
                              ELSE old.initial_balance,
                          !.currency = COALESCE(body, "currency", old.currency)]
            IN  /\ accounts' = [accounts EXCEPT ![id] = row]
                /\ last' = Reply("update_account", "200", FALSE, {Row(id, row)})
       ELSE /\ last' = Response("update_account", "404", FALSE)
            /\ UNCHANGED accounts
    /\ UNCHANGED <<transactions, keyword_rules, nextAcct, nextTx, nUpdates, pc, req>>
    /\ UNCHANGED <<user_settings, clientvars>>

AccountEditBodies ==
    {n @@ t @@ b @@ c :
        n \in Opt("account_name", {"Savings"}),
        t \in Opt("account_type", {"savings"}),
        b \in Opt("initial_balance", {20}),
        c \in Opt("currency", {"EUR"})}

NextAccount ==
    \/ \E u \in ConcUsers, b \in LedgerCreateBodies : CreateTransaction(u, b)
    \/ \E u \in Users, id \in AcctIds, b \in AccountEditBodies : UpdateAccount(u, id, b)

\* Accounts that are used and edited
SpecAccount == InitConc /\ [][NextAccount]_vars

\* C21: an account edit changes only the name, type and currency of the
\* account: whatever the request body, every account keeps its initial_balance
\* and its current_balance across the edit.
C21_EditKeepsBalances ==
    [][last'.op = "update_account" =>
         \A a \in DOMAIN accounts :
            /\ a \in DOMAIN accounts'
            /\ accounts'[a].initial_balance = accounts[a].initial_balance
            /\ accounts'[a].current_balance = accounts[a].current_balance]_vars

-----------------------------------------------------------------------------
(* Recurrence.  user1 creates transactions with and without a recurrence,   *)
(* changes the recurrence and the amount of transactions and deletes them.  *)

RecurrenceCreateBodies ==
    {b @@ r : b \in LedgerCreateBodies,
              r \in Opt("recurrence", {"", "monthly", "weekly"})}

RecurrenceUpdateBodies ==
    {r @@ m : r \in Opt("recurrence", {"monthly", "yearly"}),
              m \in Opt("amount", {1})}

NextRecurrence ==
    \/ \E u \in ConcUsers, b \in RecurrenceCreateBodies : CreateTransaction(u, b)
    \/ \E u \in ConcUsers, id \in TxIds, b \in RecurrenceUpdateBodies :
          UpdateTransaction(u, id, b)
    \/ \E u \in ConcUsers, id \in TxIds : DeleteTransaction(u, id)

SpecRecurrence == InitConc /\ [][NextRecurrence]_vars

\* C22: recurrence is a label.  A create with any recurrence adds exactly one
\* record, whose recurrence is the one supplied or 'none' when none is
\* supplied, and adjusts the balance of its account once by its amount; an
\* update with any recurrence modifies exactly that one record and adjusts
\* only its account, by the change of amount; no operation adds any further
\* transaction.
C22_RecurrenceLabel ==
    [][/\ DOMAIN transactions' \ DOMAIN transactions # {} =>
            /\ last'.op = "create"
            /\ Cardinality(DOMAIN transactions' \ DOMAIN transactions) = 1
       /\ last'.op = "create" /\ last'.status = "201" =>
            \A u \in ConcUsers, b \in RecurrenceCreateBodies :
               CreateTransaction(u, b) =>
                 /\ \E id \in DOMAIN transactions' \ DOMAIN transactions :
                       /\ DOMAIN transactions' = DOMAIN transactions \cup {id}
                       /\ transactions'[id].recurrence =
                             IF ~Has(b, "recurrence") \/ b.recurrence = ""
                             THEN "none" ELSE b.recurrence
                 /\ \A t \in DOMAIN transactions : transactions'[t] = transactions[t]
                 /\ accounts'[b.account_id].current_balance =
                       NumAdd(accounts[b.account_id].current_balance, Num(b.amount))
                 /\ OtherAccountsUnchanged({b.account_id})
       /\ last'.op = "update" /\ last'.status = "200" =>
            \A u \in ConcUsers, id \in TxIds, b \in RecurrenceUpdateBodies :
               UpdateTransaction(u, id, b) =>
                 /\ DOMAIN transactions' = DOMAIN transactions
                 /\ \A t \in DOMAIN transactions \ {id} :
                       transactions'[t] = transactions[t]
                 /\ transactions'[id].recurrence =
                       IF Has(b, "recurrence") THEN b.recurrence
                       ELSE transactions[id].recurrence
                 /\ accounts'[transactions[id].account_id].current_balance.t =
                       accounts[transactions[id].account_id].current_balance.t
                          + transactions'[id].amount - transactions[id].amount
                 /\ OtherAccountsUnchanged({transactions[id].account_id})]_vars

\* A transaction was created with a recurrence and one without, and each
\* added its amount to the account once
C22_Witness ==
    /\ last.op = "create" /\ last.status = "201"
    /\ Cardinality(DOMAIN transactions) = 2
    /\ \E t \in DOMAIN transactions : transactions[t].recurrence = "monthly"
    /\ \E t \in DOMAIN transactions : transactions[t].recurrence = "none"
    /\ LedgerHolds(1)
    /\ accounts[1].current_balance # accounts[1].initial_balance

-----------------------------------------------------------------------------
(* Exactness and ownership of the ledger *)

\* C24: balance accumulation is exact: whatever requests were served, every
\* current_balance is a decimal without floating-point rounding error, the
\* update's difference new - old and the delete's -amount included.
C24_ExactBalances ==
    \A a \in DOMAIN accounts : accounts[a].current_balance.e = 0

\* C25: in every reachable state the account a transaction references is
\* owned by the owner of the transaction, whatever account the requests named.
C25_OwnershipConsistent ==
    \A t \in DOMAIN transactions :
        /\ transactions[t].account_id \in DOMAIN accounts
        /\ accounts[transactions[t].account_id].user_id = transactions[t].user_id

-----------------------------------------------------------------------------
(* Concurrent requests on one transaction.  user1 creates transactions on   *)
(* account 1; two requests at a time then delete or update them, their      *)
(* storage statements interleaved in every order.                           *)

NextDelete ==
    \/ \E u \in ConcUsers, b \in LedgerCreateBodies : CreateTransaction(u, b)
    \/ \E p \in Procs : DeleteSteps(p)

\* Concurrent DeleteTransaction requests
SpecDelete == InitConc /\ [][NextDelete]_vars

NextRace ==
    \/ \E u \in ConcUsers, b \in LedgerCreateBodies : CreateTransaction(u, b)
    \/ \E p \in Procs : UpdateSteps(p)
    \/ DeleteSteps("p2")

\* Concurrent UpdateTransaction requests, and an UpdateTransaction concurrent
\* with a DeleteTransaction; no two deletes run at the same time
SpecRace == InitConc /\ [][NextRace]_vars

\* No request is between two of its statements
Quiescent == \A p \in Procs : pc[p] = "idle"

\* C26: a transaction's amount is reversed at most once: when concurrent
\* DeleteTransaction requests for the same transaction have both completed,
\* the account's current_balance has been adjusted by -amount exactly once,
\* that is, the ledger invariant holds.
C26_ReversedOnce ==
    Quiescent => \A a \in DOMAIN accounts : LedgerHolds(a)

\* C27: when concurrent UpdateTransaction requests on one transaction, or an
\* UpdateTransaction and a DeleteTransaction on it, have both completed, each
\* account's current_balance counts the final stored amount of each of its
\* transactions exactly once and no deleted transaction (compared in tenths,
\* the unit of the amounts).
C27_FinalAmountOnce ==
    Quiescent =>
        \A a \in DOMAIN accounts :
            accounts[a].current_balance.t =
                accounts[a].initial_balance.t + SumAmounts(transactions, a)

-----------------------------------------------------------------------------
(* User settings.  GET and PUT /api/user_settings, statement by statement;  *)
(* a user registered through POST /api/auth/register has no settings row.   *)

\* The rows of SELECT * FROM user_settings WHERE user_id = $1
SqlSelectSettings(user) == {i \in DOMAIN user_settings : user_settings[i].user_id = user}

\* JSON.stringify(req.body[f]) as an INSERT or UPDATE parameter: the JSON text
\* of the value, which the JSON column holds as that value, or undefined (SQL
\* NULL) when the body has no field f
JsonParam(body, f) == IF Has(body, f) THEN body[f] ELSE NULL

\* INSERT INTO user_settings (id, user_id, ...) with id = uuidv4()
SqlInsertSettings(user, np, op) ==
    user_settings @@
        ((Cardinality(DOMAIN user_settings) + 1) :>
            [user_id |-> user, notification_preferences |-> np,
             other_preferences |-> op])

\* GET /api/user_settings up to its first await
BeginGetSettings(p, user) ==
    /\ pc[p] = "idle"
    /\ Goto(p, "get_settings_select", [user |-> user])
    /\ UNCHANGED <<ledgervars, user_settings, clientvars>>

\* const result = await pool.query(query, [req.user.id])
GetSettingsSelect(p) ==
    /\ pc[p] = "get_settings_select"
    /\ IF SqlSelectSettings(req[p].user) = {}
       THEN Goto(p, "get_settings_insert", req[p])
       ELSE Finish(p, "get_settings", "200", FALSE)
    /\ UNCHANGED <<ledgervars, user_settings, clientvars>>

\* Create default settings if none exist
GetSettingsInsert(p) ==
    /\ pc[p] = "get_settings_insert"
    /\ user_settings' = SqlInsertSettings(req[p].user, "{}", "{}")
    /\ Finish(p, "get_settings", "200", FALSE)
    /\ UNCHANGED <<ledgervars, clientvars>>

\* PUT /api/user_settings up to its first await
BeginPutSettings(p, user, body) ==
    /\ pc[p] = "idle"
    /\ Goto(p, "put_settings_select", [user |-> user, body |-> body])
    /\ UNCHANGED <<ledgervars, user_settings, clientvars>>

\* const selectResult = await pool.query(selectQuery, [req.user.id])
PutSettingsSelect(p) ==
    /\ pc[p] = "put_settings_select"
    /\ IF SqlSelectSettings(req[p].user) = {}
       THEN Goto(p, "put_settings_insert", req[p])
       ELSE Goto(p, "put_settings_update", req[p])
    /\ UNCHANGED <<ledgervars, user_settings, clientvars>>

\* The INSERT of PUT; both preference columns are NOT NULL
PutSettingsInsert(p) ==
    /\ pc[p] = "put_settings_insert"
    /\ LET np == JsonParam(req[p].body, "notification_preferences")
           op == JsonParam(req[p].body, "other_preferences")
       IN  IF np = NULL \/ op = NULL
           THEN /\ Finish(p, "put_settings", "500", FALSE)
                /\ UNCHANGED user_settings
           ELSE /\ user_settings' = SqlInsertSettings(req[p].user, np, op)
                /\ Finish(p, "put_settings", "200", FALSE)
    /\ UNCHANGED <<ledgervars, clientvars>>

\* UPDATE user_settings SET notification_preferences = $1, other_preferences
\* = $2, updated_at = $3 WHERE user_id = $4 RETURNING *
PutSettingsUpdate(p) ==
    /\ pc[p] = "put_settings_update"
    /\ LET np == JsonParam(req[p].body, "notification_preferences")
           op == JsonParam(req[p].body, "other_preferences")
           rows == SqlSelectSettings(req[p].user)
       IN  IF rows # {} /\ (np = NULL \/ op = NULL)
           THEN /\ Finish(p, "put_settings", "500", FALSE)
                /\ UNCHANGED user_settings
           ELSE /\ user_settings' =
                      [i \in DOMAIN user_settings |->
                          IF i \in rows
                          THEN [user_settings[i] EXCEPT
                                   !.notification_preferences = np,
                                   !.other_preferences = op]
                          ELSE user_settings[i]]
                /\ Finish(p, "put_settings", "200", FALSE)
    /\ UNCHANGED <<ledgervars, clientvars>>

SettingsBodies ==
    {n @@ o : n \in Opt("notification_preferences", {"{\"email\":true}"}),
              o \in Opt("other_preferences", {"{\"theme\":\"dark\"}"})}

NextSettings ==
    \E p \in Procs :
        \/ \E u \in Users : BeginGetSettings(p, u)
        \/ GetSettingsSelect(p)
        \/ GetSettingsInsert(p)
        \/ \E u \in Users, b \in SettingsBodies : BeginPutSettings(p, u, b)
        \/ PutSettingsSelect(p)
        \/ PutSettingsInsert(p)
        \/ PutSettingsUpdate(p)

\* Concurrent GET and PUT /api/user_settings requests of two users
SpecSettings == Init /\ [][NextSettings]_vars

\* C28: each user has at most one user_settings row in every reachable state,
\* whatever GET and PUT /api/user_settings requests ran and however their
\* statements interleaved.
C28_OneSettingsRow ==
    \A u \in Users : Cardinality(SqlSelectSettings(u)) <= 1

-----------------------------------------------------------------------------
(* Client store actions.  Every set() of the store is followed by persist's *)
(* write of the snapshot; a page reload closes the page's sockets and       *)
(* creates the store again.                                                 *)

MaxNotifications == 2

MaxSockets == 3

MaxLoads == 2

servervars == <<ledgervars, last, pc, req, user_settings>>

\* set(partial) of a store wrapped in persist
Set(state) ==
    /\ store' = state
    /\ storage' = Persisted(state)

\* The object io(url) returns for the n-th call: a new connection each time
SocketInstance(n) == <<"socket", n>>

set_auth_state(auth) ==
    /\ Set([store EXCEPT !.auth_state = auth])
    /\ UNCHANGED <<connections, nSockets, nLoads, servervars>>

\* auth_state: { ...state.auth_state, ...updates }
update_auth_state(updates) ==
    /\ LET a == store.auth_state
       IN  Set([store EXCEPT !.auth_state =
                   [f \in DOMAIN a \cup DOMAIN updates |->
                       IF f \in DOMAIN updates THEN updates[f] ELSE a[f]]])
    /\ UNCHANGED <<connections, nSockets, nLoads, servervars>>

logout ==
    /\ Set([store EXCEPT !.auth_state = InitialState.auth_state])
    /\ UNCHANGED <<connections, nSockets, nLoads, servervars>>

set_notifications(notifications) ==
    /\ Set([store EXCEPT !.notification_state = notifications])
    /\ UNCHANGED <<connections, nSockets, nLoads, servervars>>

add_notification(notification) ==
    /\ Len(store.notification_state) < MaxNotifications
    /\ Set([store EXCEPT !.notification_state = Append(@, notification)])
    /\ UNCHANGED <<connections, nSockets, nLoads, servervars>>

mark_notification_as_read(id) ==
    /\ Set([store EXCEPT !.notification_state =
               [i \in DOMAIN @ |->
                   IF @[i].id = id THEN [@[i] EXCEPT !.is_read = TRUE] ELSE @[i]]])
    /\ UNCHANGED <<connections, nSockets, nLoads, servervars>>

set_notification_center_open(is_open) ==
    /\ Set([store EXCEPT !.global_ui_state.is_notification_center_open = is_open])
    /\ UNCHANGED <<connections, nSockets, nLoads, servervars>>

set_responsive_state(responsive) ==
    /\ Set([store EXCEPT !.responsive_state = responsive])
    /\ UNCHANGED <<connections, nSockets, nLoads, servervars>>

\* io(url), socket_instance.on('notification', ...), set({ socket })
init_socket ==
    /\ nSockets < MaxSockets
    /\ nSockets' = nSockets + 1
    /\ connections' = connections \cup {SocketInstance(nSockets + 1)}
    /\ Set([store EXCEPT !.socket = SocketInstance(nSockets + 1)])
    /\ UNCHANGED <<nLoads, servervars>>

disconnect_socket ==
    /\ IF store.socket # NULL
       THEN /\ connections' = connections \ {store.socket}
            /\ Set([store EXCEPT !.socket = NULL])
       ELSE UNCHANGED <<store, storage, connections>>
    /\ UNCHANGED <<nSockets, nLoads, servervars>>

\* A 'notification' event arrives on an open connection: the listener
\* init_socket registered on it runs get().add_notification(data)
OnNotification(s, data) ==
    /\ s \in connections
    /\ add_notification(data)

\* The page is reloaded: its sockets are closed, the store is created again
\* from the initial state and the stored item, and persist writes the item
Restart ==
    /\ nLoads < MaxLoads
    /\ nLoads' = nLoads + 1
    /\ connections' = {}
    /\ Set(Hydrated(storage))
    /\ UNCHANGED <<nSockets, servervars>>

AuthStates ==
    {[jwt_token |-> "token",
      user_data |-> [id |-> "user1", email |-> "user1@example.com", name |-> "User"],
      is_authenticated |-> TRUE]}

AuthUpdates == {[jwt_token |-> UNDEFINED], [is_authenticated |-> FALSE]}

Notifications ==
    {[id |-> i, notification_type |-> "bill", message |-> "due", is_read |-> FALSE,
      created_at |-> "2023-03-15"] : i \in {"n1", "n2"}}

ResponsiveStates ==
    {[viewport_width |-> 390, viewport_height |-> 844, device_type |-> "mobile"]}

SocketInstances == {SocketInstance(n) : n \in 1..MaxSockets}

NextClient ==
    \/ \E auth \in AuthStates : set_auth_state(auth)
    \/ \E updates \in AuthUpdates : update_auth_state(updates)
    \/ logout
    \/ \E n \in Notifications : set_notifications(<<n>>)
    \/ \E n \in Notifications : add_notification(n)
    \/ \E n \in Notifications : mark_notification_as_read(n.id)
    \/ \E is_open \in BOOLEAN : set_notification_center_open(is_open)
    \/ \E r \in ResponsiveStates : set_responsive_state(r)
    \/ init_socket
    \/ disconnect_socket
    \/ \E s \in SocketInstances, n \in Notifications : OnNotification(s, n)
    \/ Restart

\* The client store through page loads
SpecClient == Init /\ [][NextClient]_vars

\* The slices persist writes
PersistedSlices ==
    {"auth_state", "notification_state", "global_ui_state", "responsive_state"}

\* C23: the persisted snapshot contains exactly auth_state,
\* notification_state, global_ui_state and responsive_state and never the
\* socket; after a restart these four slices of the store equal the values
\* last persisted and socket is null, and socket stays null until init_socket
\* is called, whatever store actions ran before the restart.
C23_TwoTierState ==
    [][/\ DOMAIN storage = PersistedSlices
       /\ DOMAIN storage' = PersistedSlices
       /\ Restart =>
            /\ \A k \in PersistedSlices : store'[k] = storage[k]
            /\ store'.socket = NULL
       /\ (store.socket = NULL /\ store'.socket # NULL) => init_socket]_vars

\* The page was reloaded after the user logged in, received a notification
\* and opened a socket: the four slices are back and the socket is not
C23_Witness ==
    /\ nLoads = 2
    /\ nSockets = 1
    /\ connections = {}
    /\ store.socket = NULL
    /\ store.auth_state.is_authenticated
    /\ Len(store.notification_state) = 1
    /\ store.global_ui_state.is_notification_center_open
    /\ store.responsive_state.device_type = "mobile"
    /\ storage = Persisted(store)

\* C29: the client store holds at most one live notification subscription:
\* whatever init_socket and disconnect_socket calls were made, every
\* connection that was opened and not yet disconnected is the one the socket
\* field references; in particular no connection is open, and so no
\* 'notification' event can append to notification_state, while socket is
\* null.
C29_OneLiveSubscription ==
    \A s \in connections : store.socket = s

====
